---------------------------- MODULE Spec2Model ----------------------------
(* A model of LotteryServer.play_lottery (src/main.py) over a SQLite users  *)
(* table.  Each play is a connection of its own; the statements of one play *)
(* are separate steps, so that plays of several callers interleave the way  *)
(* the database lets them: a SELECT reads the committed table, the first    *)
(* UPDATE opens the write transaction (BEGIN IMMEDIATE), and only one write *)
(* transaction is open at a time.                                           *)
EXTENDS Integers, FiniteSets, Sequences, TLC

\* ------------------------------------------------------------------ bounds
\* The processes that call play_lottery.  Each makes one call, and the calls
\* are numbered in the order they start; only under SpecRepeat a process calls
\* again.
NProcs == 2
\* Last calendar day the clock reaches.
MaxDay == 2
\* The calls of a behaviour in which a process calls again after its call has
\* returned.
MaxCalls == 3

\* ------------------------------------------------------- program constants
\* self.max_daily_attempts
max_daily_attempts == 10
\* The daily limit the help text (line 156) and the docstring of
\* lottery_command (line 132) state.
DocDailyLimit == 3
\* last_lottery_date of a row that never played: SQL NULL.
NoDate == 0
\* The day the clock shows first; the days are 1, 2, ...
FirstDay == 1

Procs == 1..NProcs
Days == FirstDay..MaxDay

\* Every user_id a caller may pass; the rows of the users table are a subset:
\* with one row, "u2" is a user_id that has none.
UserIds == {"u1", "u2"}
\* The empty string: a user_id a row may have, and a value Python counts as
\* false.
EmptyId == ""
\* The users tables a behaviour starts from: one row, or two; the second row's
\* user_id is "u2" or the empty string.
AccountSets == {{"u1"}, {"u1", "u2"}, {"u1", EmptyId}}
\* No row: fetchone() / _get_random_user returning None.
NoUser == "None"

\* Balances of the row of "u1" at the start.
InitBalances == {0, 3}
\* (last_lottery_date, daily_lottery_count) of the row of "u1" at the start:
\* never played, or played on FirstDay one time less than the limit, or as
\* often as the limit.  Each is a row that earlier plays leave behind.
InitPlayed ==
    {<<NoDate, 0>>} \cup {<<FirstDay, c>> : c \in {max_daily_attempts - 1, max_daily_attempts}}

\* ------------------------------------------------------------- the results
\* 'msg' of line 52
MsgNotFound == "UserNotFound"
\* 'msg' of line 61
MsgLimit == "DailyLimitReached"
\* 'msg' of line 67
MsgNoBalance == "InsufficientBalance"
\* 'msg' of line 117
MsgBusy == "Busy"
\* 'msg' of line 121
MsgSystemError == "SystemError"
\* msg of lines 75, 78, 81, 87, 91, 94
MsgLoss == "loss"
MsgRefund == "refund"
MsgDouble == "double"
MsgTransfer == "transfer"
MsgTransferFailed == "transfer-failed-refund"
MsgJackpot == "jackpot"
\* The call ended by an exception that left play_lottery.
MsgRaised == "raised"
\* No call has returned yet.
MsgNone == "-"

VARIABLES
    accounts,       \* the user_ids that have a row in users
    db,             \* the committed table: user_id -> [balance, date, count]
    pending,        \* the table as the open write transaction sees it
    lock,           \* the process whose write transaction is open, or 0
    clock,          \* the UTC calendar day the clock showed when last read
    pc,             \* per process: where its play_lottery call stands
    user_id,        \* per process: the argument of the call
    bet_amount,     \* per process: the local bet_amount (= balance as read)
    new_count,      \* per process: the local new_count
    today,          \* per process: the local today
    result_amount,  \* per process: the local result_amount
    msg,            \* per process: the local msg (the outcome drawn)
    target_user,    \* per process: the local target_user
    ret,            \* per process: what its last call returned
    calls,          \* history: calls started
    wins,           \* history: user_id -> day -> plays that returned success
    db0             \* history: the table at the start

vars == <<accounts, db, pending, lock, clock, pc, user_id, bet_amount, new_count,
          today, result_amount, msg, target_user, ret, calls, wins, db0>>

locals == <<user_id, bet_amount, new_count, today, result_amount, msg, target_user>>
history == <<calls, wins, db0>>

Row(b, d, c) == [balance |-> b, date |-> d, count |-> c]

\* The value play_lottery returns (lines 106-113).  target stands for the
\* user_id that the msg of line 87 shows; user and day are not in the dict:
\* they record whose call it was and the date it read, for the properties.
Result(ok, m, bet, res, rem, t, u, d) ==
    [success |-> ok, msg |-> m, bet |-> bet, result |-> res, balance |-> res,
     remaining_attempts |-> rem, target |-> t, user |-> u, day |-> d]

\* Lines 52, 61, 67, 117, 121: a failure names its reason only.
Failure(m, u) == Result(FALSE, m, 0, 0, 0, NoUser, u, NoDate)

NoResult == Result(FALSE, MsgNone, 0, 0, 0, NoUser, NoUser, NoDate)

\* The rows a user_id may have at the start: "u2" has a balance and never
\* played.
InitRows(u) ==
    IF u = "u1"
    THEN {Row(b, dc[1], dc[2]) : b \in InitBalances, dc \in InitPlayed}
    ELSE {Row(5, NoDate, 0)}

Init ==
    /\ accounts \in AccountSets
    /\ db \in [accounts -> UNION {InitRows(u) : u \in accounts}]
    /\ \A u \in accounts : db[u] \in InitRows(u)
    /\ pending = db
    /\ lock = 0
    /\ clock = FirstDay
    /\ pc = [p \in Procs |-> "idle"]
    /\ user_id = [p \in Procs |-> NoUser]
    /\ bet_amount = [p \in Procs |-> 0]
    /\ new_count = [p \in Procs |-> 0]
    /\ today = [p \in Procs |-> NoDate]
    /\ result_amount = [p \in Procs |-> 0]
    /\ msg = [p \in Procs |-> MsgNone]
    /\ target_user = [p \in Procs |-> NoUser]
    /\ ret = [p \in Procs |-> NoResult]
    /\ calls = 0
    /\ wins = [u \in accounts |-> [d \in Days |-> IF db[u].date = d THEN db[u].count ELSE 0]]
    /\ db0 = db

\* ------------------------------------------------------------- the helpers
\* fetchone() of the SELECT of lines 46-49 on table t: the row, or none.
HasRow(t, u) == u \in DOMAIN t

\* Line 59: last_date is set and is today's date.
PlayedToday(last_date, day) == last_date # NoDate /\ last_date = day

\* The limit check with > for >=: one play too many is let through.
LimitReached_OffByOne(last_date, used_count, day) ==
    PlayedToday(last_date, day) /\ used_count > max_daily_attempts

\* Lines 59-61: the daily limit is used up.
LimitReached(last_date, used_count, day) ==
    PlayedToday(last_date, day) /\ used_count >= max_daily_attempts

\* new_count without the reset of line 64: the counter of an earlier date is
\* carried on.
NewCount_NoReset(last_date, used_count, day) == used_count + 1

\* Lines 59-64: new_count.
NewCount(last_date, used_count, day) ==
    IF PlayedToday(last_date, day) THEN used_count + 1 ELSE 1

\* The balance check with < for <=: a balance of 0 is staked.
Insufficient_Negative(balance) == balance < 0

\* Line 66: balance <= 0.
Insufficient(balance) == balance <= 0

\* The branches with < for <= in line 73: a roll of 50 is a refund, not a loss.
Outcome_Boundary(rand) ==
    IF rand < 50 THEN MsgLoss
    ELSE IF rand <= 70 THEN MsgRefund
    ELSE IF rand <= 80 THEN MsgDouble
    ELSE IF rand <= 99 THEN MsgTransfer
    ELSE MsgJackpot

\* Lines 73-94: the branch rand selects, named by its msg (the transfer branch
\* before the target is looked up).
Outcome(rand) ==
    IF rand <= 50 THEN MsgLoss
    ELSE IF rand <= 70 THEN MsgRefund
    ELSE IF rand <= 80 THEN MsgDouble
    ELSE IF rand <= 99 THEN MsgTransfer
    ELSE MsgJackpot

\* Line 72: random.randint(1, 100).
Rolls == 1..100

\* result_amount with line 88 left out: the sender of a transfer is paid the
\* bet back as well.
ResultAmount_TransferKeeps(m, bet) ==
    CASE m = MsgLoss -> 0
      [] m = MsgRefund -> bet
      [] m = MsgDouble -> bet * 2
      [] m = MsgTransfer -> bet
      [] m = MsgTransferFailed -> bet
      [] m = MsgJackpot -> bet * 10

\* A settlement whose loss takes the stake a second time.
ResultAmount_LossDebits(m, bet) ==
    CASE m = MsgLoss -> 0 - bet
      [] m = MsgRefund -> bet
      [] m = MsgDouble -> bet * 2
      [] m = MsgTransfer -> 0
      [] m = MsgTransferFailed -> bet
      [] m = MsgJackpot -> bet * 10

\* Lines 74, 77, 80, 88, 90, 93: result_amount of the branch.
ResultAmount(m, bet) ==
    CASE m = MsgLoss -> 0
      [] m = MsgRefund -> bet
      [] m = MsgDouble -> bet * 2
      [] m = MsgTransfer -> 0
      [] m = MsgTransferFailed -> bet
      [] m = MsgJackpot -> bet * 10

\* _get_random_user: the rows the query may return, user_id != exclude.
OtherUsers(t, exclude) == (DOMAIN t) \ {exclude}

\* Lines 29-38: what _get_random_user may return: the user_id of any other
\* row, or None when there is none.
RandomUser(t, exclude) ==
    IF OtherUsers(t, exclude) = {} THEN {NoUser} ELSE OtherUsers(t, exclude)

\* Line 84: `if target_user:` tests the truth of the value: None fails it, and
\* so does the empty string.
Truthy(t) == t # NoUser /\ t # EmptyId

\* Line 70: UPDATE users SET balance = 0 WHERE user_id = ?
SetBalanceZero(t, u) == [t EXCEPT ![u].balance = 0]

\* Lines 85 and 96: UPDATE users SET balance = balance + ? WHERE user_id = ?
AddBalance(t, u, amount) == [t EXCEPT ![u].balance = @ + amount]

\* Lines 99-103: UPDATE users SET last_lottery_date = ?, daily_lottery_count = ?
RecordPlay(t, u, day, count) == [t EXCEPT ![u].date = day, ![u].count = count]


\* The attempts left counted before this play instead of after it.
Remaining_BeforePlay(count) == max_daily_attempts - (count - 1)

\* Line 112: remaining_attempts.
Remaining(count) == max_daily_attempts - count

\* ------------------------------------------------------------- the actions
\* The locals of process p are dropped as its call returns r.
Return(p, r) ==
    /\ pc' = [pc EXCEPT ![p] = "done"]
    /\ ret' = [ret EXCEPT ![p] = r]
    /\ user_id' = [user_id EXCEPT ![p] = NoUser]
    /\ bet_amount' = [bet_amount EXCEPT ![p] = 0]
    /\ new_count' = [new_count EXCEPT ![p] = 0]
    /\ today' = [today EXCEPT ![p] = NoDate]
    /\ result_amount' = [result_amount EXCEPT ![p] = 0]
    /\ msg' = [msg EXCEPT ![p] = MsgNone]
    /\ target_user' = [target_user EXCEPT ![p] = NoUser]

\* A transaction end that forgets to give the write lock back.
EndTransaction_KeepsLock(p, commit) ==
    IF lock = p
    THEN /\ lock' = lock
         /\ db' = IF commit THEN pending ELSE db
         /\ pending' = IF commit THEN pending ELSE db
    ELSE UNCHANGED <<db, pending, lock>>

\* The write transaction of p ends: committed (the table becomes what the
\* transaction wrote) or rolled back.  Without an open transaction both do
\* nothing.
EndTransaction(p, commit) ==
    IF lock = p
    THEN /\ lock' = 0
         /\ db' = IF commit THEN pending ELSE db
         /\ pending' = IF commit THEN pending ELSE db
    ELSE UNCHANGED <<db, pending, lock>>

\* A call that registers an unknown user with an empty row before it reports
\* the user as missing.
Call_CreatesRow(p, u) ==
    /\ pc[p] = "idle"
    /\ p = calls + 1
    /\ calls' = calls + 1
    /\ \E now \in clock..MaxDay :
          /\ clock' = now
          /\ IF ~HasRow(db, u)
             THEN /\ Return(p, Failure(MsgNotFound, u))
                  /\ db' = [x \in DOMAIN db \cup {u} |->
                               IF x = u THEN Row(0, NoDate, 0) ELSE db[x]]
             ELSE IF LimitReached(db[u].date, db[u].count, now)
             THEN Return(p, Failure(MsgLimit, u)) /\ db' = db
             ELSE IF Insufficient(db[u].balance)
             THEN Return(p, Failure(MsgNoBalance, u)) /\ db' = db
             ELSE /\ pc' = [pc EXCEPT ![p] = "stake"]
                  /\ user_id' = [user_id EXCEPT ![p] = u]
                  /\ bet_amount' = [bet_amount EXCEPT ![p] = db[u].balance]
                  /\ new_count' = [new_count EXCEPT ![p] = NewCount(db[u].date, db[u].count, now)]
                  /\ today' = [today EXCEPT ![p] = now]
                  /\ db' = db
                  /\ UNCHANGED <<result_amount, msg, target_user, ret>>
    /\ UNCHANGED <<accounts, pending, lock, wins, db0>>

\* Lines 40-67: play_lottery(u) is called and opens its connection; the
\* SELECT reads the committed row, outside any transaction, and the call is
\* validated.  Line 57 reads the UTC date: the day the clock showed last, or a
\* later one (midnight has passed since).  A return leaves the with block,
\* whose commit finds no transaction.
Call(p, u) ==
    /\ pc[p] = "idle"
    /\ p = calls + 1
    /\ calls' = calls + 1
    /\ \E now \in clock..MaxDay :
          /\ clock' = now
          /\ IF ~HasRow(db, u)
             THEN Return(p, Failure(MsgNotFound, u))
             ELSE IF LimitReached(db[u].date, db[u].count, now)
             THEN Return(p, Failure(MsgLimit, u))
             ELSE IF Insufficient(db[u].balance)
             THEN Return(p, Failure(MsgNoBalance, u))
             ELSE /\ pc' = [pc EXCEPT ![p] = "stake"]
                  /\ user_id' = [user_id EXCEPT ![p] = u]
                  /\ bet_amount' = [bet_amount EXCEPT ![p] = db[u].balance]
                  /\ new_count' = [new_count EXCEPT ![p] = NewCount(db[u].date, db[u].count, now)]
                  /\ today' = [today EXCEPT ![p] = now]
                  /\ UNCHANGED <<result_amount, msg, target_user, ret>>
    /\ UNCHANGED <<accounts, db, pending, lock, wins, db0>>

\* Line 70: the first UPDATE begins the IMMEDIATE transaction, which takes the
\* write lock, and zeroes the balance.
Stake(p) ==
    /\ pc[p] = "stake"
    /\ lock = 0
    /\ lock' = p
    /\ pending' = SetBalanceZero(db, user_id[p])
    /\ pc' = [pc EXCEPT ![p] = "draw"]
    /\ UNCHANGED <<accounts, db, clock, locals, ret, history>>

\* Lines 70, 115-117: another transaction holds the write lock for longer than
\* the connection's timeout; BEGIN IMMEDIATE raises OperationalError and the
\* call returns busy.  No transaction of p is open.
StakeBusy(p) ==
    /\ pc[p] = "stake"
    /\ lock # 0
    /\ Return(p, Failure(MsgBusy, user_id[p]))
    /\ UNCHANGED <<accounts, db, pending, lock, clock, history>>

\* Lines 72-94: the draw.  The transfer branch asks _get_random_user, whose own
\* connection reads the committed table, and credits the row it names.
Draw(p) ==
    /\ pc[p] = "draw"
    /\ \E m \in {Outcome(rand) : rand \in Rolls} :
          LET u == user_id[p]
          IN  IF m = MsgTransfer
              THEN \E t \in RandomUser(db, u) :
                      /\ target_user' = [target_user EXCEPT ![p] = t]
                      /\ IF Truthy(t)
                         THEN /\ msg' = [msg EXCEPT ![p] = MsgTransfer]
                              /\ pending' = AddBalance(pending, t, bet_amount[p])
                              /\ result_amount' =
                                    [result_amount EXCEPT ![p] = ResultAmount(MsgTransfer, bet_amount[p])]
                         ELSE /\ msg' = [msg EXCEPT ![p] = MsgTransferFailed]
                              /\ result_amount' =
                                    [result_amount EXCEPT ![p] = ResultAmount(MsgTransferFailed, bet_amount[p])]
                              /\ UNCHANGED pending
              ELSE /\ msg' = [msg EXCEPT ![p] = m]
                   /\ result_amount' = [result_amount EXCEPT ![p] = ResultAmount(m, bet_amount[p])]
                   /\ UNCHANGED <<pending, target_user>>
    /\ pc' = [pc EXCEPT ![p] = "credit"]
    /\ UNCHANGED <<accounts, db, lock, clock, user_id, bet_amount, new_count, today, ret, history>>

\* Lines 96-97: the payout is added to the player's balance.
Credit(p) ==
    /\ pc[p] = "credit"
    /\ pending' = AddBalance(pending, user_id[p], result_amount[p])
    /\ pc' = [pc EXCEPT ![p] = "record"]
    /\ UNCHANGED <<accounts, db, lock, clock, locals, ret, history>>

\* Lines 99-103: the date and the counter are written.
Record(p) ==
    /\ pc[p] = "record"
    /\ pending' = RecordPlay(pending, user_id[p], today[p], new_count[p])
    /\ pc' = [pc EXCEPT ![p] = "commit"]
    /\ UNCHANGED <<accounts, db, lock, clock, locals, ret, history>>

\* Lines 105-113: the commit, and the success result.
Commit(p) ==
    /\ pc[p] = "commit"
    /\ EndTransaction(p, TRUE)
    /\ Return(p, Result(TRUE, msg[p], bet_amount[p], result_amount[p],
                        Remaining(new_count[p]), target_user[p], user_id[p], today[p]))
    /\ wins' = [wins EXCEPT ![user_id[p]][today[p]] = @ + 1]
    /\ UNCHANGED <<accounts, clock, calls, db0>>

\* The statements inside the try block of lines 45-113.
InTry == {"stake", "draw", "credit", "record", "commit"}

\* Lines 115-117, then the with block's exit: a statement raises
\* sqlite3.OperationalError (the database is locked, an I/O error, a full
\* disk).  The handler returns busy without a rollback; the return leaves the
\* with block, whose exit commits whatever the transaction wrote so far.
FailOperational(p) ==
    /\ pc[p] \in InTry
    /\ EndTransaction(p, TRUE)
    /\ Return(p, Failure(MsgBusy, user_id[p]))
    /\ UNCHANGED <<accounts, clock, history>>

\* Lines 118-121: a statement raises another exception; the handler rolls the
\* transaction back and returns the system error.
FailOther(p) ==
    /\ pc[p] \in InTry
    /\ EndTransaction(p, FALSE)
    /\ Return(p, Failure(MsgSystemError, user_id[p]))
    /\ UNCHANGED <<accounts, clock, history>>

\* An exception leaves play_lottery: sqlite3.connect raises (line 41, outside
\* the try), the rollback of line 119 raises inside the handler, or the commit
\* of the with block's exit raises after the busy return.  The transaction, if
\* one is open, is rolled back as the connection is given up.
Raise(p) ==
    /\ pc[p] \in InTry
    /\ EndTransaction(p, FALSE)
    /\ Return(p, Failure(MsgRaised, user_id[p]))
    /\ UNCHANGED <<accounts, clock, history>>

\* Lines 41-49, 115-121: the call fails before it has read its row.
\* sqlite3.connect raises outside the try block and the exception leaves
\* play_lottery; the SELECT raises OperationalError (busy) or another
\* exception (system error).  No transaction is open.
CallFault(p, u) ==
    /\ pc[p] = "idle"
    /\ p = calls + 1
    /\ calls' = calls + 1
    /\ \E m \in {MsgRaised, MsgBusy, MsgSystemError} : Return(p, Failure(m, u))
    /\ UNCHANGED <<accounts, db, pending, lock, clock, wins, db0>>

\* Lines 40-67, for a process whose earlier call has returned: it calls
\* play_lottery again.  The SELECT reads the committed row as in Call; the
\* result of the earlier call stays until this one returns.
CallAgain(p, u) ==
    /\ pc[p] = "done"
    /\ calls >= NProcs
    /\ calls < MaxCalls
    /\ calls' = calls + 1
    /\ \E now \in clock..MaxDay :
          /\ clock' = now
          /\ IF ~HasRow(db, u)
             THEN Return(p, Failure(MsgNotFound, u))
             ELSE IF LimitReached(db[u].date, db[u].count, now)
             THEN Return(p, Failure(MsgLimit, u))
             ELSE IF Insufficient(db[u].balance)
             THEN Return(p, Failure(MsgNoBalance, u))
             ELSE /\ pc' = [pc EXCEPT ![p] = "stake"]
                  /\ user_id' = [user_id EXCEPT ![p] = u]
                  /\ bet_amount' = [bet_amount EXCEPT ![p] = db[u].balance]
                  /\ new_count' = [new_count EXCEPT ![p] = NewCount(db[u].date, db[u].count, now)]
                  /\ today' = [today EXCEPT ![p] = now]
                  /\ UNCHANGED <<result_amount, msg, target_user, ret>>
    /\ UNCHANGED <<accounts, db, pending, lock, wins, db0>>

\* Every step of one process, without the storage faults.
Step(p) ==
    \/ \E u \in UserIds : Call(p, u)
    \/ Stake(p)
    \/ StakeBusy(p)
    \/ Draw(p)
    \/ Credit(p)
    \/ Record(p)
    \/ Commit(p)

Fault(p) ==
    \/ \E u \in UserIds : CallFault(p, u)
    \/ FailOperational(p)
    \/ FailOther(p)
    \/ Raise(p)

\* No call is in progress.
AllIdle == \A q \in Procs : pc[q] \in {"idle", "done"}

\* One call at a time: a call starts only when no other is in progress.
SeqStep(p) ==
    \/ \E u \in UserIds : AllIdle /\ Call(p, u)
    \/ Stake(p)
    \/ Draw(p)
    \/ Credit(p)
    \/ Record(p)
    \/ Commit(p)

Next == \E p \in Procs : Step(p) \/ Fault(p)

NextNoFault == \E p \in Procs : Step(p)

NextSeq == \E p \in Procs : SeqStep(p)

NextRepeat == \E p \in Procs : Step(p) \/ \E u \in UserIds : CallAgain(p, u)

\* Concurrent calls and storage faults.
Spec == Init /\ [][Next]_vars

\* Concurrent calls, no storage fault.
SpecNoFault == Init /\ [][NextNoFault]_vars

\* One call at a time, no storage fault.
SpecSeq == Init /\ [][NextSeq]_vars

\* Concurrent calls, no storage fault; a process whose call has returned may
\* call again, up to MaxCalls calls in all.
SpecRepeat == Init /\ [][NextRepeat]_vars

\* ------------------------------------------------------------- the claims
\* Total of the balances of table t.
RECURSIVE SumOver(_, _)
SumOver(t, S) ==
    IF S = {} THEN 0
    ELSE LET u == CHOOSE x \in S : TRUE IN t[u].balance + SumOver(t, S \ {u})

TotalSupply(t) == SumOver(t, DOMAIN t)

\* The step in which process p's call is made for user u: it returns at once,
\* or goes on to stake.
CalledFor(p, u) ==
    /\ pc[p] = "idle"
    /\ \/ pc'[p] = "done" /\ ret'[p].user = u
       \/ pc'[p] = "stake" /\ user_id'[p] = u

\* The step in which process p's call returns success.
Succeeds(p) == pc[p] = "commit" /\ pc'[p] = "done" /\ ret'[p].success

\* Two calls of different processes that both returned success for the same
\* user on the same date.
SameUserSameDay(p, q) ==
    /\ p # q
    /\ ret[p].success /\ ret[q].success
    /\ ret[p].user = ret[q].user
    /\ ret[p].day = ret[q].day

\* The attempts user u had left on date d at the start.
AttemptsLeft(u, d) ==
    IF db0[u].date = d THEN max_daily_attempts - db0[u].count ELSE max_daily_attempts

\* C1: plays of one user on one date are serialized.  When two calls returned
\* success for the same user and date, each leaving a positive balance, and
\* the user had at least two attempts left, they observed different values of
\* new_count (so they returned different remaining_attempts), and the
\* committed daily_lottery_count of that date counts every successful play of
\* it.
C1_SameUserPlaysSerialized ==
    \A p, q \in Procs :
        ( /\ SameUserSameDay(p, q)
          /\ ret[p].balance > 0 /\ ret[q].balance > 0
          /\ AttemptsLeft(ret[p].user, ret[p].day) >= 2 )
        => /\ ret[p].remaining_attempts # ret[q].remaining_attempts
           /\ db[ret[p].user].date = ret[p].day =>
                 db[ret[p].user].count = wins[ret[p].user][ret[p].day]

\* C2: a user never has more than max_daily_attempts successful plays on one
\* date.
C2_DailyLimitNeverBypassed ==
    \A u \in accounts : \A d \in Days : wins[u][d] <= max_daily_attempts

\* C3: a call that fails after its balance was zeroed and before the commit
\* of line 105 leaves the committed table as it was.
C3_FailureRollsBack ==
    [][\A p \in Procs :
          (pc[p] \in {"draw", "credit", "record"} /\ pc'[p] = "done" /\ ~ret'[p].success)
              => db' = db]_vars

\* The balances after a play of user u alone on table t, with the draw m and,
\* for the transfer, the target tgt: lines 69-97 run without interleaving.
SerialPlay(t, u, m, tgt) ==
    LET bet == t[u].balance
        staked == SetBalanceZero(t, u)
        moved == IF m = MsgTransfer THEN AddBalance(staked, tgt, bet) ELSE staked
    IN  AddBalance(moved, u, ResultAmount(m, bet))

Balances(t) == [u \in DOMAIN t |-> t[u].balance]

\* The balances after the plays that processes p and q returned, had p's run
\* first and q's second from the table at the start.
Serial(p, q) ==
    Balances(SerialPlay(SerialPlay(db0, ret[p].user, ret[p].msg, ret[p].target),
                        ret[q].user, ret[q].msg, ret[q].target))

\* C4: when a play of user A and a play of user B that transfers to A have
\* both committed, and they are the only calls made, the balances are those of
\* one of the two serial orders of the same two plays with the same draws.
C4_TransferCreditNotLost ==
    \A p, q \in Procs :
        ( /\ p # q
          /\ \A r \in Procs \ {p, q} : pc[r] = "idle"
          /\ pc[p] = "done" /\ pc[q] = "done"
          /\ ret[p].success /\ ret[q].success
          /\ ret[p].user # ret[q].user
          /\ ret[q].msg = MsgTransfer /\ ret[q].target = ret[p].user )
        => Balances(db) \in {Serial(p, q), Serial(q, p)}

\* What a successful play adds to the total of the balances: the payout
\* credited less the stake.
NetOfPlay(r) ==
    CASE r.msg = MsgLoss -> 0 - r.bet
      [] r.msg = MsgRefund -> 0
      [] r.msg = MsgTransfer -> 0
      [] r.msg = MsgTransferFailed -> 0
      [] r.msg = MsgDouble -> r.bet
      [] r.msg = MsgJackpot -> 9 * r.bet

\* C5: a step in which a play returns success changes the total of the
\* committed balances by the net of its outcome, and the bet it returns is
\* the player's committed balance that it staked; no other step changes the
\* total.
C5_SupplyAccounting ==
    [][ /\ \A p \in Procs :
              Succeeds(p) =>
                  /\ TotalSupply(db') - TotalSupply(db) = NetOfPlay(ret'[p])
                  /\ ret'[p].bet = db[ret'[p].user].balance
        /\ (\A p \in Procs : ~Succeeds(p)) => TotalSupply(db') = TotalSupply(db) ]_vars

\* C6: a play that resolves to the transfer with a target found leaves the
\* sender with balance 0 and adds exactly the bet, the sender's balance before
\* the play, to the balance of the receiver, an existing account other than
\* the sender: sender after + receiver after - receiver before = bet.
C6_TransferConservation ==
    [][\A p \in Procs :
          (Succeeds(p) /\ ret'[p].msg = MsgTransfer) =>
              LET sender == ret'[p].user
                  receiver == ret'[p].target
                  bet == ret'[p].bet
              IN  /\ receiver \in accounts /\ receiver # sender
                  /\ bet = db[sender].balance
                  /\ db'[sender].balance = 0
                  /\ db'[receiver].balance = db[receiver].balance + bet
                  /\ db'[sender].balance + db'[receiver].balance - db[receiver].balance = bet]_vars

\* C6, witness: a transfer of a positive bet has been committed.
C6_Witness ==
    \E p \in Procs :
        /\ ret[p].success /\ ret[p].msg = MsgTransfer /\ ret[p].bet > 0
        /\ db[ret[p].target].balance >= ret[p].bet

\* C7 as stated: a call for an account whose balance is 0 returns the
\* insufficient-balance failure, whatever its date and counter are, and
\* leaves the table unchanged.
C7_ZeroBalanceAlwaysInsufficient ==
    [][\A p \in Procs : \A u \in accounts :
          (CalledFor(p, u) /\ db[u].balance = 0) =>
              /\ pc'[p] = "done"
              /\ ret'[p].msg = MsgNoBalance
              /\ db' = db]_vars

\* C7, amended: a call for an account whose balance is 0 fails and leaves the
\* table unchanged; the failure is the daily-limit one when the account has
\* used up today's attempts, and the insufficient-balance one otherwise.
C7_ZeroBalanceGuard ==
    [][\A p \in Procs : \A u \in accounts :
          (CalledFor(p, u) /\ db[u].balance = 0) =>
              /\ pc'[p] = "done"
              /\ ~ret'[p].success
              /\ ret'[p].msg =
                    IF db[u].date = clock' /\ db[u].count >= max_daily_attempts
                    THEN MsgLimit ELSE MsgNoBalance
              /\ db' = db]_vars

\* C7, witness: a call for an account with balance 0 that has used up today's
\* attempts has returned the daily-limit failure.
C7_Witness ==
    \E p \in Procs :
        /\ pc[p] = "done"
        /\ ret[p].user \in accounts
        /\ db[ret[p].user].balance = 0
        /\ db0[ret[p].user].balance = 0
        /\ ret[p].msg = MsgLimit

\* C8: no play returns success once its user has had DocDailyLimit successful
\* plays on that date: the successful plays of a user on one date, the one
\* just returned included, never exceed the documented limit.
C8_DocumentedLimit ==
    \A p \in Procs :
        ret[p].success => wins[ret[p].user][ret[p].day] <= DocDailyLimit

\* C9: played one at a time, a call for an account with a positive balance
\* that has played max_daily_attempts times today fails with the daily-limit
\* failure and changes nothing; with max_daily_attempts - 1 plays today it
\* goes on with new_count = max_daily_attempts, and returns success with
\* remaining_attempts 0 and the counter max_daily_attempts committed.
C9_DailyLimitBoundary ==
    [][\A p \in Procs :
          /\ \A u \in accounts :
                (CalledFor(p, u) /\ db[u].balance > 0 /\ db[u].date = clock') =>
                    /\ db[u].count = max_daily_attempts =>
                          pc'[p] = "done" /\ ret'[p].msg = MsgLimit /\ db' = db
                    /\ db[u].count = max_daily_attempts - 1 =>
                          pc'[p] = "stake" /\ new_count'[p] = max_daily_attempts
          /\ (pc[p] \in InTry /\ new_count[p] = max_daily_attempts /\ pc'[p] = "done") =>
                /\ ret'[p].success
                /\ ret'[p].remaining_attempts = 0
                /\ db'[user_id[p]].count = max_daily_attempts
                /\ db'[user_id[p]].date = today[p]]_vars

\* C9, witness: a play of an account that had max_daily_attempts - 1 plays on
\* the date returned success with no attempt left.
C9_Witness ==
    \E p \in Procs :
        /\ ret[p].success
        /\ ret[p].remaining_attempts = 0
        /\ db0[ret[p].user].date = ret[p].day
        /\ db0[ret[p].user].count = max_daily_attempts - 1
        /\ db[ret[p].user].count = max_daily_attempts

\* C10: played one at a time, a call for an account with a positive balance
\* whose last_lottery_date is not today (an earlier date, or none) goes on
\* with new_count = 1 whatever the stored counter is, and returns success
\* with last_lottery_date = today and daily_lottery_count = 1 committed and
\* remaining_attempts = max_daily_attempts - 1.
C10_DateRollover ==
    [][\A p \in Procs :
          /\ \A u \in accounts :
                (CalledFor(p, u) /\ db[u].balance > 0 /\ db[u].date # clock') =>
                    pc'[p] = "stake" /\ new_count'[p] = 1 /\ today'[p] = clock'
          /\ (pc[p] \in InTry /\ db[user_id[p]].date # today[p] /\ pc'[p] = "done") =>
                /\ ret'[p].success
                /\ db'[user_id[p]].date = today[p]
                /\ db'[user_id[p]].count = 1
                /\ ret'[p].remaining_attempts = max_daily_attempts - 1]_vars

\* C10, witness: an account that had used max_daily_attempts on an earlier
\* date has played on a later date, and its counter is 1.
C10_Witness ==
    \E p \in Procs :
        /\ ret[p].success
        /\ db0[ret[p].user].count = max_daily_attempts
        /\ db0[ret[p].user].date # NoDate
        /\ db0[ret[p].user].date < ret[p].day
        /\ db[ret[p].user].date = ret[p].day
        /\ db[ret[p].user].count = 1

\* The rolls the help text (lines 160-164) gives each outcome: 50, 20, 10, 19
\* and 1 of the 100.
RollsOf(m) ==
    CASE m = MsgLoss -> 1..50
      [] m = MsgRefund -> 51..70
      [] m = MsgDouble -> 71..80
      [] m = MsgTransfer -> 81..99
      [] m = MsgJackpot -> 100..100

Outcomes == {MsgLoss, MsgRefund, MsgDouble, MsgTransfer, MsgJackpot}

\* C11: played one at a time, every roll in 1..100 lies in the range of
\* exactly one outcome (1-50 loss, 51-70 refund, 71-80 double, 81-99 transfer,
\* 100 jackpot) and selects that outcome; the draw of a play applies one of
\* them (the transfer as a transfer or as its fallback); and a play that
\* returns loss, refund, double or jackpot commits the balance 0, bet, 2 * bet
\* or 10 * bet, where bet is the balance before the call.
C11_OutcomeResolution ==
    [][\A p \in Procs :
          /\ (pc[p] = "draw" /\ pc'[p] = "credit") =>
                /\ \A rand \in Rolls :
                      /\ Cardinality({m \in Outcomes : rand \in RollsOf(m)}) = 1
                      /\ rand \in RollsOf(Outcome(rand))
                /\ msg'[p] \in Outcomes \cup {MsgTransferFailed}
                /\ msg'[p] = MsgTransferFailed => ~Truthy(target_user'[p])
          /\ Succeeds(p) =>
                LET u == ret'[p].user
                    bet == db[u].balance
                    m == ret'[p].msg
                IN  /\ ret'[p].bet = bet
                    /\ m = MsgLoss => db'[u].balance = 0
                    /\ m = MsgRefund => db'[u].balance = bet
                    /\ m = MsgDouble => db'[u].balance = 2 * bet
                    /\ m = MsgJackpot => db'[u].balance = 10 * bet]_vars

\* C11, witness: a jackpot and nothing else has been played, and the player's
\* balance is ten times the positive balance it had.
C11_Witness ==
    \E p \in Procs :
        /\ ret[p].success /\ ret[p].msg = MsgJackpot /\ ret[p].bet > 0
        /\ calls = 1
        /\ db[ret[p].user].balance = 10 * db0[ret[p].user].balance

\* C12: no call of play_lottery ends by an exception that reaches the caller:
\* every call returns a result.
C12_NoErrorEscapes ==
    \A p \in Procs : ret[p].msg # MsgRaised

\* How far a call has run: the position only moves forward.
Rank(l) ==
    CASE l = "idle" -> 0
      [] l = "stake" -> 1
      [] l = "draw" -> 2
      [] l = "credit" -> 3
      [] l = "record" -> 4
      [] l = "commit" -> 5
      [] l = "done" -> 6

\* The ways a call ends that are not a storage fault striking it.
ReturnKinds ==
    {MsgNotFound, MsgLimit, MsgNoBalance, MsgBusy} \cup Outcomes \cup {MsgTransferFailed}

\* C13: every play terminates and none deadlocks or keeps the write lock.  A
\* call that is in progress always has a next step and its position only moves
\* forward, never back to an earlier statement (no internal retry); the write
\* lock is held only by a call that is past its first UPDATE and has not
\* returned, so once a call has returned (success, validation failure, busy or
\* system error) it holds no lock; and a call that finds the write lock taken
\* returns at once, with the busy failure unless a storage fault strikes it,
\* leaving the table, the open transaction and the lock as they were.
C13_NoDeadlockNoLockLeft ==
    /\ [](\A p \in Procs :
             /\ pc[p] \in InTry => ENABLED Step(p)
             /\ lock = p => pc[p] \in {"draw", "credit", "record", "commit"})
    /\ [](lock = 0 => \A p \in Procs : pc[p] = "stake" => ENABLED Stake(p))
    /\ [][\A p \in Procs :
             /\ pc'[p] # pc[p] => Rank(pc'[p]) > Rank(pc[p])
             /\ (pc[p] = "stake" /\ lock # 0 /\ pc'[p] # pc[p]) =>
                   /\ pc'[p] = "done"
                   /\ ~ret'[p].success
                   /\ ret'[p].msg \in ReturnKinds => ret'[p] = Failure(MsgBusy, user_id[p])
                   /\ db' = db /\ pending' = pending /\ lock' = lock]_vars

\* A call has returned busy because another held the write lock; that other
\* call has committed and the lock is free again.
C13_Witness ==
    \E p, q \in Procs :
        /\ ret[p] = Failure(MsgBusy, ret[p].user)
        /\ ret[q].success /\ ret[q].bet > 0
        /\ pc[p] = "done" /\ pc[q] = "done"
        /\ lock = 0
        /\ db # db0

\* C14: balances are never negative.  The initial balances are non-negative
\* integers, and in every committed state, after any interleaving of plays,
\* with failed and rolled-back ones among them, every account's balance is a
\* non-negative integer.
C14_BalancesNonNegative ==
    \A u \in DOMAIN db : db[u].balance \in Nat /\ db0[u].balance \in Nat

\* One play was rolled back after a storage fault and another one committed a
\* loss, which leaves its player with nothing.
C14_Witness ==
    \E p, q \in Procs :
        /\ ret[p].msg = MsgSystemError
        /\ ret[q].success /\ ret[q].msg = MsgLoss /\ ret[q].bet > 0
        /\ db[ret[q].user].balance = 0

\* C15: the success result matches the committed state.  On the step that
\* commits a play and returns success, the player's committed balance is the
\* returned balance, which is the returned payout; the committed counter is
\* new_count and the committed date is today; the returned remaining attempts
\* are max_daily_attempts - new_count, within 0..max_daily_attempts-1; and a
\* double pays twice the bet, with max_daily_attempts-1 attempts left on the
\* first play of a day.
C15_ResultMatchesCommit ==
    [][\A p \in Procs :
          Succeeds(p) =>
             LET r == ret'[p]
                 u == r.user
             IN  /\ u = user_id[p] /\ r.day = today[p] /\ r.bet = bet_amount[p]
                 /\ db'[u].balance = r.balance
                 /\ r.balance = r.result
                 /\ db'[u].count = new_count[p]
                 /\ db'[u].date = today[p]
                 /\ r.remaining_attempts = max_daily_attempts - new_count[p]
                 /\ r.remaining_attempts \in 0..(max_daily_attempts - 1)
                 /\ r.msg = MsgDouble =>
                       /\ r.result = 2 * r.bet
                       /\ new_count[p] = 1 => r.remaining_attempts = max_daily_attempts - 1]_vars

\* The first play of a day by an account with balance 3 drew the double: bet 3,
\* payout 6, balance 6, and max_daily_attempts-1 attempts left.
C15_Witness ==
    \E p \in Procs :
        /\ ret[p].success /\ ret[p].msg = MsgDouble
        /\ ret[p].bet = 3 /\ ret[p].result = 6 /\ ret[p].balance = 6
        /\ ret[p].remaining_attempts = max_daily_attempts - 1
        /\ db[ret[p].user] = Row(6, ret[p].day, 1)
        /\ db0[ret[p].user] = Row(3, NoDate, 0)

\* C16: a play for a user_id without an account never changes the table (no
\* row is created, no balance, date or counter of any account changes, no
\* transaction is opened) and always returns the user-not-found failure,
\* however often it is repeated; the set of accounts never changes.
C16_UnknownUserNoMutation ==
    /\ [](DOMAIN db = accounts /\ DOMAIN pending = accounts)
    /\ [][\A p \in Procs : \A u \in UserIds :
             (CalledFor(p, u) /\ u \notin DOMAIN db) =>
                /\ pc'[p] = "done"
                /\ ret'[p] = Failure(MsgNotFound, u)
                /\ db' = db /\ pending' = pending /\ lock' = lock
                /\ wins' = wins]_vars

\* Two calls in a row for a user_id without an account: both were refused as
\* not found and the table is as it was at the start.
C16_Witness ==
    /\ \A p \in {1, 2} :
          /\ pc[p] = "done"
          /\ ret[p].msg = MsgNotFound
          /\ ret[p].user \notin accounts
    /\ db = db0

\* C17: the transfer fallback.  A play made alone whose draw takes the
\* transfer branch while no account but the player's exists is a success with
\* the fallback's own message (neither the refund's nor the transfer's),
\* payout = bet, the player's balance after the play the one before, no other
\* account credited, and the attempt consumed (date and counter written); and
\* the fallback is taken only when no other account exists.
C17_TransferFallback ==
    [][\A p \in Procs :
          /\ (pc[p] = "draw" /\ pc'[p] = "credit" /\ OtherUsers(db, user_id[p]) = {}) =>
                msg'[p] \in (Outcomes \ {MsgTransfer}) \cup {MsgTransferFailed}
          /\ (Succeeds(p) /\ ret'[p].msg = MsgTransferFailed) =>
                LET r == ret'[p]
                    u == r.user
                IN  /\ MsgTransferFailed \notin {MsgRefund, MsgTransfer}
                    /\ r.result = r.bet /\ r.bet = db[u].balance
                    /\ db'[u].balance = db[u].balance
                    /\ \A v \in OtherUsers(db, u) : db'[v] = db[v]
                    /\ db'[u].date = r.day
                    /\ db'[u].count = NewCount(db[u].date, db[u].count, r.day)
                    /\ r.remaining_attempts = max_daily_attempts - db'[u].count
                    /\ OtherUsers(db, u) = {}]_vars

\* The step in which the call of process p ends.
Ends(p) == pc[p] # "done" /\ pc'[p] = "done"

\* C18: the frame of a play.  No step creates or deletes an account; the
\* committed table changes only in the step that ends a play; a play of user u
\* that ends in success leaves date and counter of every other account alone
\* and their balances too, except that a transfer adds the bet to the balance
\* of its one target, an existing account other than u; and a play that ends
\* in failure changes nothing at all.
C18_Frame ==
    [][/\ DOMAIN db' = DOMAIN db
       /\ (\A p \in Procs : ~Ends(p)) => db' = db
       /\ \A p \in Procs :
             Ends(p) =>
                LET r == ret'[p]
                    u == r.user
                IN  IF r.success
                    THEN /\ \A v \in OtherUsers(db, u) :
                               /\ db'[v].date = db[v].date
                               /\ db'[v].count = db[v].count
                               /\ IF r.msg = MsgTransfer /\ v = r.target
                                  THEN db'[v].balance = db[v].balance + r.bet
                                  ELSE db'[v].balance = db[v].balance
                         /\ r.msg = MsgTransfer => r.target \in OtherUsers(db, u) /\ r.bet > 0
                    ELSE db' = db]_vars

\* C19: the counter bound.  Every initial counter is within
\* 0..max_daily_attempts; in every committed state an account that has played
\* has a counter within 1..max_daily_attempts; and the step that commits a
\* successful play on the date the row already carries never lowers the
\* player's counter.
C19_CounterBound ==
    /\ \A u \in DOMAIN db0 : db0[u].count \in 0..max_daily_attempts
    /\ [](\A u \in DOMAIN db :
             db[u].date # NoDate => db[u].count \in 1..max_daily_attempts)
    /\ [][\A p \in Procs :
             (Succeeds(p) /\ db[ret'[p].user].date = ret'[p].day) =>
                db'[ret'[p].user].count >= db[ret'[p].user].count]_vars

=============================================================================
